---- MODULE Spec2Model ----
(***************************************************************************)
(* A model of the AI-code detector: the feature extractors, the complexity *)
(* analyzer and the scoring engine of app_simple.py, the older thirteen-   *)
(* check detector of app.py, and the Flask handlers that serve them        *)
(* (/api/analyze with the in-memory analysis store, /analyze_files), and   *)
(* the folder analyser of templates/test2.py with its worker threads.      *)
(*                                                                         *)
(* A source text is a sequence of lines. A line is represented by what the *)
(* extractors' primitives (len, lstrip, re.findall, `in`) measure on it:   *)
(* its length, its leading whitespace, its word tokens, its comment, its   *)
(* operators. The syntax tree is what ast.parse returns for the text: the  *)
(* parser is a library, its outcome (a tree, or SyntaxError) is part of    *)
(* the input.                                                              *)
(*                                                                         *)
(* Numbers: ratios are kept exact as [num, den]; np.std is kept as the     *)
(* variance it is the root of; a percentage rounded to two decimals is     *)
(* kept in hundredths (8.16 is 816).                                       *)
(***************************************************************************)
EXTENDS Integers, Sequences, FiniteSets, TLC

VARIABLES
    AI_DETECTION_THRESHOLD, \* config.py: Config.AI_DETECTION_THRESHOLD (percent)
    pc,                     \* phase of a single analysis: "input", "done"
    code,                   \* the text handed to detect_ai_generated
    features,               \* the feature record under scoring
    ai_score,               \* detect_ai_generated: local ai_score after the loop
    max_score,              \* detect_ai_generated: local max_score after the loop
    result,                 \* what detect_ai_generated returned
    featuresB,              \* a second, independent analysis: its record
    resultB,                \*   and its result
    checks,                 \* app.py: the dict of the thirteen checks
    legacy_result,          \* app.py: what detect_ai_generated_code returned
    analysis_results,       \* app_simple.py: the in-memory analysis store
    thread,                 \* the request each server thread is handling
    upload,                 \* the /analyze_files request being served
    history,                \* the /api/history request being served
    tool,                   \* app.py, test2.py: the LanguageTool grammar checker
    folder_pc,              \* test2.py: where process_folder is
    files_to_analyze,       \* test2.py: process_folder's list of paths
    total_files,            \* test2.py: the module's global counters
    completed_files,
    total_ai_lines,
    total_human_lines,
    total_generic_count,
    total_comments,
    total_misspelled_words,
    ai_percentages,         \* test2.py: the global lists behind the chart
    human_percentages,
    worker                  \* test2.py: the analyze_code call of each path

\* the state of templates/test2.py
folder == <<folder_pc, files_to_analyze, total_files, completed_files, total_ai_lines,
            total_human_lines, total_generic_count, total_comments,
            total_misspelled_words, ai_percentages, human_percentages, worker>>

\* the state of the two Flask applications
web == <<AI_DETECTION_THRESHOLD, pc, code, features, ai_score, max_score, result,
         featuresB, resultB, checks, legacy_result, analysis_results, thread, upload,
         history>>

vars == <<web, tool, folder>>

----------------------------------------------------------------------------
(* Bounds of the model *)

\* longest text, in lines, that the single-analysis specifications draw
MaxLines == 2
\* most records the analysis store holds before the model stops accepting
MaxStore == 3
\* most files in one upload
MaxFiles == 2

----------------------------------------------------------------------------
(* Arithmetic helpers *)

Max(a, b) == IF a >= b THEN a ELSE b

RECURSIVE SumSeq(_)
SumSeq(s) == IF s = <<>> THEN 0 ELSE Head(s) + SumSeq(Tail(s))

\* a / b as an exact ratio
Ratio(a, b) == [num |-> a, den |-> b]

\* r < p / q   (dens positive)
RatioLess(r, p, q) == r.num * q < p * r.den

\* r > p / q
RatioGreater(r, p, q) == r.num * q > p * r.den

\* round(r, 2) in hundredths: the nearest integer to 100 * r. (No weight sum of
\* the scoring table lands on a tie, so the tie rule does not matter.)
Round2(r) == (2 * 100 * r.num + r.den) \div (2 * r.den)

SeqsUpTo(S, n) == UNION {[1..k -> S] : k \in 0..n}

----------------------------------------------------------------------------
(* Source text *)

\* A word of the text (a maximal run of [A-Za-z0-9_]): its letters, and how many
\* digits follow them.
Word(b) == [base |-> b, digits |-> 0]

WordD(b, n) == [base |-> b, digits |-> n]

\* str.lower() / re.IGNORECASE on the spellings the model uses
Lower(s) ==
    CASE s = "PY" -> "py"
      [] s = "Py" -> "py"
      [] s = "TXT" -> "txt"
      [] s = "Temp" -> "temp"
      [] s = "DATA" -> "data"
      [] OTHER -> s

\* A line holding nothing: the empty line.
EmptyLine ==
    [indent |-> 0, length |-> 0, words |-> <<>>,
     has_comment |-> FALSE, article |-> FALSE, progressive |-> FALSE,
     triple |-> 0, ops |-> 0, spaced |-> 0, defs |-> 0,
     idioms |-> 0, main_guard |-> FALSE, libs |-> {},
     numbers |-> 0, brace_groups |-> 0]

\* "   " : whitespace only; lstrip() leaves nothing, so indent = length
SpaceLine == [EmptyLine EXCEPT !.indent = 3, !.length = 3]

\* "x = 1"
AssignLine ==
    [EmptyLine EXCEPT !.length = 5, !.words = <<Word("x")>>, !.ops = 1, !.spaced = 1,
        !.numbers = 1]

\* "        Temp=data+result1+value" : four generic names, unspaced operators
GenericLine ==
    [EmptyLine EXCEPT !.indent = 8, !.length = 31,
        !.words = <<Word("Temp"), Word("data"), WordD("result", 1), Word("value")>>,
        !.ops = 3, !.spaced = 0]

\* "  # a apple is running for item and count" : both grammar patterns match
CommentLine ==
    [EmptyLine EXCEPT !.indent = 2, !.length = 41,
        !.words = <<Word("a"), Word("apple"), Word("is"), Word("running"),
                    Word("for"), Word("item"), Word("and"), Word("count")>>,
        !.has_comment = TRUE, !.article = TRUE, !.progressive = TRUE]

\* "    import numpy, pandas, requests  # ..." padded to 130 characters
ImportLine ==
    [EmptyLine EXCEPT !.indent = 4, !.length = 130,
        !.words = <<Word("import"), Word("numpy"), Word("pandas"), Word("requests")>>,
        !.has_comment = TRUE,
        !.libs = {"numpy", "pandas", "requests"}]

\* 'def f(): """doc"""' : a definition and a one-line docstring
DefLine ==
    [EmptyLine EXCEPT !.length = 18, !.words = <<Word("def"), Word("f"), Word("doc")>>,
        !.triple = 2, !.defs = 1]

\* 'if __name__ == "__main__":' : the main guard ("==" is two operator characters)
MainGuardLine ==
    [EmptyLine EXCEPT !.length = 26,
        !.words = <<Word("if"), Word("__name__"), Word("__main__")>>,
        !.ops = 2, !.spaced = 2, !.idioms = 1, !.main_guard = TRUE]

\* "    for var1 in range(3): data = var" : the range-loop idiom
RangeLine ==
    [EmptyLine EXCEPT !.indent = 4, !.length = 36,
        !.words = <<Word("for"), WordD("var", 1), Word("in"), Word("range"),
                    Word("data"), Word("var")>>,
        !.ops = 1, !.spaced = 1, !.idioms = 1, !.numbers = 1]

SampleLines ==
    {EmptyLine, SpaceLine, AssignLine, GenericLine, CommentLine, ImportLine,
     DefLine, MainGuardLine, RangeLine}

\* line.strip() is non-empty
NonBlank(line) == line.length > line.indent

----------------------------------------------------------------------------
(* Syntax trees: what ast.parse returns *)

Node(k, ch) == [kind |-> k, children |-> ch]

Leaf(k) == Node(k, <<>>)

\* ast.parse raised (SyntaxError, ValueError, ...): no tree
ParseError == Leaf("SyntaxError")

EmptyModule == Leaf("Module")

\* x = 1
FlatModule == Node("Module", <<Leaf("Assign")>>)

\* try: x = 1 / except E: x = 2
TryModule ==
    Node("Module", <<Node("Try", <<Leaf("Assign"),
                                   Node("ExceptHandler", <<Leaf("Assign")>>)>>)>>)

\* for ..: if ..: with ..: pass   followed by a shallow   while ..: pass
NestedModule ==
    Node("Module",
         <<Node("For", <<Node("If", <<Node("With", <<Leaf("Pass")>>)>>)>>),
           Node("While", <<Leaf("Pass")>>)>>)

\* async with ..: async for ..: pass
AsyncModule ==
    Node("Module", <<Node("AsyncWith", <<Node("AsyncFor", <<Leaf("Pass")>>)>>)>>)

\* six decision points: complexity 7
BranchyModule ==
    Node("Module",
         <<Node("If", <<Node("If", <<Leaf("Pass")>>), Node("If", <<Leaf("Pass")>>)>>),
           Node("While", <<Leaf("Pass")>>),
           Node("Try", <<Leaf("Pass"), Node("ExceptHandler", <<Leaf("Pass")>>),
                         Node("ExceptHandler", <<Leaf("Pass")>>)>>)>>)

SampleTrees ==
    {EmptyModule, FlatModule, TryModule, NestedModule, AsyncModule, BranchyModule}

AstOutcomes == SampleTrees \cup {ParseError}

----------------------------------------------------------------------------
(* Texts *)

Text(ls, a) == [lines |-> ls, ast |-> a]

\* the line holds a statement, or the start of one: it is neither blank nor the
\* sample line that is a comment and nothing else
HasStatement(line) == NonBlank(line) /\ line # CommentLine

\* A text with no statement (no line, blank lines and comments only) parses to
\* the empty module; any other text parses to some tree with statements or fails
\* to parse.
ParsesAs(ls, a) ==
    (\A i \in 1..Len(ls) : ~HasStatement(ls[i])) <=> a = EmptyModule

Texts ==
    {Text(ls, a) : <<ls, a>> \in
        {p \in SeqsUpTo(SampleLines, MaxLines) \X AstOutcomes : ParsesAs(p[1], p[2])}}

\* the empty string
EmptyText == Text(<<>>, EmptyModule)

\* len(code): the characters of the lines and the newlines between them
Characters(text) ==
    SumSeq([i \in 1..Len(text.lines) |-> text.lines[i].length])
        + Max(Len(text.lines) - 1, 0)

----------------------------------------------------------------------------
(* Feature extractors (app_simple.py, AdvancedAIDetector) *)

\* [line for line in lines if line.strip()]
NonEmptyLines(text) == SelectSeq(text.lines, NonBlank)

\* _analyze_code_structure: np.std(indentations) if more than one, else 0; kept
\* as the variance (n * sum(x^2) - sum(x)^2) / n^2.
IndentVariance(indentations) ==
    LET n == Len(indentations)
        s1 == SumSeq(indentations)
        s2 == SumSeq([i \in 1..n |-> indentations[i] * indentations[i]])
    IN  IF n > 1 THEN Ratio(n * s2 - s1 * s1, n * n) ELSE Ratio(0, 1)

RECURSIVE MaxSeq(_)
MaxSeq(s) == IF s = <<>> THEN 0 ELSE Max(Head(s), MaxSeq(Tail(s)))

_analyze_code_structure(text) ==
    LET non_empty_lines == NonEmptyLines(text)
        n == Len(non_empty_lines)
        indentations == [i \in 1..n |-> non_empty_lines[i].indent]
        line_lengths == [i \in 1..n |-> non_empty_lines[i].length]
    IN  [indent_consistency |-> IndentVariance(indentations),
         avg_line_length |-> IF n > 0 THEN Ratio(SumSeq(line_lengths), n) ELSE Ratio(0, 1),
         max_line_length |-> MaxSeq(line_lengths)]

\* comment_issues of one '#' comment: each of the two patterns adds one
CommentIssues(line) ==
    (IF line.article THEN 1 ELSE 0) + (IF line.progressive THEN 1 ELSE 0)

_analyze_comments(text) ==
    LET n == Len(text.lines)
        python_comments == SelectSeq(text.lines, LAMBDA l : l.has_comment)
        \* re.findall(r'""".*?"""', code, re.DOTALL): the delimiters pair up in order
        docstring_comments == SumSeq([i \in 1..n |-> text.lines[i].triple]) \div 2
    IN  [comment_count |-> Len(python_comments) + docstring_comments,
         comment_grammar_issues |->
            SumSeq([i \in 1..Len(python_comments) |-> CommentIssues(python_comments[i])]),
         has_docstrings |-> docstring_comments > 0]

\* The words of the text, line after line
RECURSIVE AllWords(_)
AllWords(ls) == IF ls = <<>> THEN <<>> ELSE Head(ls).words \o AllWords(Tail(ls))

\* A generic-name pattern r'\b<base>\d*\b' (digits optional) or r'\b<base>\d+\b'
Pattern(b, needs_digits) == [base |-> b, needs_digits |-> needs_digits]

\* the word is one match of the pattern, under re.IGNORECASE
Matches(pattern, word) ==
    /\ Lower(word.base) = pattern.base
    /\ pattern.needs_digits => word.digits > 0

\* len(re.findall(pattern, code, re.IGNORECASE))
FindAll(pattern, words) == Len(SelectSeq(words, LAMBDA w : Matches(pattern, w)))

\* the list inside _analyze_naming_patterns
ai_variable_patterns ==
    <<Pattern("var", TRUE), Pattern("temp", FALSE), Pattern("result", FALSE),
      Pattern("data", FALSE), Pattern("value", FALSE)>>

_analyze_naming_patterns(text) ==
    LET words == AllWords(text.lines)
        n == Len(text.lines)
    IN  [ai_variable_count |->
            SumSeq([k \in 1..Len(ai_variable_patterns) |->
                        FindAll(ai_variable_patterns[k], words)]),
         function_count |-> SumSeq([i \in 1..n |-> text.lines[i].defs])]

\* the walk without its `elif isinstance(node, ast.ExceptHandler)` branch
ComplexityKindsNoHandler == {"If", "While", "For", "AsyncFor", "With"}

\* isinstance(node, (ast.If, ast.While, ast.For, ast.AsyncFor)), ast.ExceptHandler, ast.With
ComplexityKinds == {"If", "While", "For", "AsyncFor", "ExceptHandler", "With"}

\* the nesting test extended by ast.AsyncWith, which the complexity walk does not
\* count
NestingKindsAsyncWith == {"If", "While", "For", "AsyncFor", "With", "AsyncWith"}

\* isinstance(child, (ast.If, ast.While, ast.For, ast.AsyncFor, ast.With))
NestingKinds == {"If", "While", "For", "AsyncFor", "With"}

\* the nodes of ast.walk(tree) that add one to complexity
RECURSIVE CountDecisions(_)
CountDecisions(tree) ==
    (IF tree.kind \in ComplexityKinds THEN 1 ELSE 0)
        + SumSeq([i \in 1..Len(tree.children) |-> CountDecisions(tree.children[i])])

\* _calculate_max_nesting(tree, current_depth, max_depth); NestChildren is its
\* loop over ast.iter_child_nodes(tree), from child i on
RECURSIVE _calculate_max_nesting(_, _, _), NestChildren(_, _, _, _)
_calculate_max_nesting(tree, current_depth, max_depth) ==
    NestChildren(tree.children, 1, current_depth, Max(max_depth, current_depth))

NestChildren(children, i, current_depth, max_depth) ==
    IF i > Len(children) THEN max_depth
    ELSE NestChildren(children, i + 1, current_depth,
            IF children[i].kind \in NestingKinds
            THEN _calculate_max_nesting(children[i], current_depth + 1, max_depth)
            ELSE _calculate_max_nesting(children[i], current_depth, max_depth))

_calculate_cyclomatic_complexity(tree) ==
    LET complexity == 1 + CountDecisions(tree)
    IN  [cyclomatic_complexity |-> complexity,
         nesting_depth |-> _calculate_max_nesting(tree, 0, 0),
         branch_count |-> complexity - 1]

\* a fallback that reports no nesting
ComplexityDefaultsNoDepth ==
    [cyclomatic_complexity |-> 1, nesting_depth |-> 0, branch_count |-> 0]

\* the bare except of _analyze_complexity
ComplexityDefaults == [cyclomatic_complexity |-> 1, nesting_depth |-> 1, branch_count |-> 0]

_analyze_complexity(text) ==
    IF text.ast = ParseError
    THEN ComplexityDefaults
    ELSE _calculate_cyclomatic_complexity(text.ast)

\* _check_indentation_consistency(lines)
_check_indentation_consistency(lines) ==
    LET non_blank == SelectSeq(lines, NonBlank)
        n == Len(non_blank)
        indentations == [i \in 1..n |-> non_blank[i].indent]
        min_indent == CHOOSE m \in {indentations[i] : i \in 1..n} :
                        \A i \in 1..n : m <= indentations[i]
    IN  IF n = 0 THEN Ratio(1, 1)
        ELSE IF min_indent = 0 THEN Ratio(1, 2)
        ELSE Ratio(Len(SelectSeq(indentations, LAMBDA x : x % min_indent = 0)), n)

_analyze_style_consistency(text) ==
    LET n == Len(text.lines)
        total_operators == SumSeq([i \in 1..n |-> text.lines[i].ops])
        operator_spacing == SumSeq([i \in 1..n |-> text.lines[i].spaced])
    IN  [operator_spacing_consistency |->
            IF total_operators > 0 THEN Ratio(operator_spacing, total_operators)
            ELSE Ratio(1, 1),
         consistent_indentation |-> _check_indentation_consistency(text.lines)]

\* the list inside _analyze_semantic_patterns
common_libraries == {"numpy", "pandas", "matplotlib", "tensorflow", "sklearn", "requests"}

_analyze_semantic_patterns(text) ==
    LET n == Len(text.lines)
        present == UNION {text.lines[i].libs : i \in 1..n}
    IN  [ai_pattern_matches |-> SumSeq([i \in 1..n |-> text.lines[i].idioms]),
         common_library_count |-> Cardinality(common_libraries \cap present),
         has_main_guard |-> \E i \in 1..n : text.lines[i].main_guard]

\* dict.update of one feature group into the record
Merge(f, g) ==
    [k \in DOMAIN f \cup DOMAIN g |-> IF k \in DOMAIN g THEN g[k] ELSE f[k]]

extract_features(text) ==
    Merge(Merge(Merge(Merge(Merge(Merge(
        [lines_of_code |-> Len(text.lines), characters |-> Characters(text)],
        _analyze_code_structure(text)),
        _analyze_comments(text)),
        _analyze_naming_patterns(text)),
        _analyze_complexity(text)),
        _analyze_style_consistency(text)),
        _analyze_semantic_patterns(text))

----------------------------------------------------------------------------
(* Configuration (config.py) *)

\* Config.AI_VARIABLE_PATTERNS
AI_VARIABLE_PATTERNS ==
    <<Pattern("var", TRUE), Pattern("temp", FALSE), Pattern("result", FALSE),
      Pattern("data", FALSE), Pattern("value", FALSE), Pattern("item", FALSE),
      Pattern("count", FALSE)>>

\* Config.SCORING_WEIGHTS
SCORING_WEIGHTS ==
    [ai_variable_count |-> 20, comment_grammar_issues |-> 15,
     common_library_count |-> 10, ai_pattern_matches |-> 15,
     indent_consistency |-> 8, operator_spacing |-> 8,
     function_count |-> 6, cyclomatic_complexity |-> 6,
     avg_line_length |-> 3, max_line_length |-> 3,
     has_docstrings |-> 2, has_main_guard |-> 2]

RECURSIVE SumOver(_, _)
SumOver(f, keys) ==
    IF keys = {} THEN 0
    ELSE LET k == CHOOSE x \in keys : TRUE IN f[k] + SumOver(f, keys \ {k})

\* the sum of all weights of the configured table
ConfiguredMaxScore == SumOver(SCORING_WEIGHTS, DOMAIN SCORING_WEIGHTS)

\* float(os.environ.get('AI_DETECTION_THRESHOLD', 30.0)): the default and two
\* settings of the environment variable
ThresholdValues == {20, 30, 50}

----------------------------------------------------------------------------
(* Scoring engine (app_simple.py, detect_ai_generated) *)

Rule(condition, weight) == [condition |-> condition, weight |-> weight]

\* the rule list with documentation counted against the score: has_docstrings
\* weighs -2
scoring_rules_docstrings_minus2(f) ==
    <<Rule(f.ai_variable_count > 3, 20),
      Rule(f.comment_grammar_issues > 2, 15),
      Rule(f.common_library_count > 2, 10),
      Rule(f.ai_pattern_matches > 2, 15),
      Rule(RatioLess(f.indent_consistency, 64, 100), 8),
      Rule(RatioLess(f.operator_spacing_consistency, 7, 10), 8),
      Rule(f.function_count > 5, 6),
      Rule(f.cyclomatic_complexity > 5, 6),
      Rule(RatioGreater(f.avg_line_length, 100, 1), 3),
      Rule(f.max_line_length > 120, 3),
      Rule(f.has_docstrings, 0 - 2),
      Rule(f.has_main_guard, 2)>>

\* the rule list with the library rule weighted 15, out of step with the
\* configured table
scoring_rules_library15(f) ==
    <<Rule(f.ai_variable_count > 3, 20),
      Rule(f.comment_grammar_issues > 2, 15),
      Rule(f.common_library_count > 2, 15),
      Rule(f.ai_pattern_matches > 2, 15),
      Rule(RatioLess(f.indent_consistency, 64, 100), 8),
      Rule(RatioLess(f.operator_spacing_consistency, 7, 10), 8),
      Rule(f.function_count > 5, 6),
      Rule(f.cyclomatic_complexity > 5, 6),
      Rule(RatioGreater(f.avg_line_length, 100, 1), 3),
      Rule(f.max_line_length > 120, 3),
      Rule(f.has_docstrings, 2),
      Rule(f.has_main_guard, 2)>>

\* the list scoring_rules built from the feature record
scoring_rules(f) ==
    <<Rule(f.ai_variable_count > 3, 20),
      Rule(f.comment_grammar_issues > 2, 15),
      Rule(f.common_library_count > 2, 10),
      Rule(f.ai_pattern_matches > 2, 15),
      \* np.std < 0.8, i.e. variance < 0.64
      Rule(RatioLess(f.indent_consistency, 64, 100), 8),
      Rule(RatioLess(f.operator_spacing_consistency, 7, 10), 8),
      Rule(f.function_count > 5, 6),
      Rule(f.cyclomatic_complexity > 5, 6),
      Rule(RatioGreater(f.avg_line_length, 100, 1), 3),
      Rule(f.max_line_length > 120, 3),
      Rule(f.has_docstrings, 2),
      Rule(f.has_main_guard, 2)>>

\* the loop with `max_score += weight` under an else: only the rules that do not
\* fire count towards max_score
RECURSIVE ScoringLoopMaxInElse(_, _, _, _)
ScoringLoopMaxInElse(rules, i, score, max) ==
    IF i > Len(rules) THEN [ai_score |-> score, max_score |-> max]
    ELSE ScoringLoopMaxInElse(rules, i + 1,
            IF rules[i].condition THEN score + rules[i].weight ELSE score,
            IF rules[i].condition THEN max ELSE max + rules[i].weight)

\* the loop with `ai_score = weight` for `ai_score += weight`
RECURSIVE ScoringLoopAssign(_, _, _, _)
ScoringLoopAssign(rules, i, score, max) ==
    IF i > Len(rules) THEN [ai_score |-> score, max_score |-> max]
    ELSE ScoringLoopAssign(rules, i + 1,
            IF rules[i].condition THEN rules[i].weight ELSE score,
            max + rules[i].weight)

\* for condition, weight in scoring_rules: from rule i on
RECURSIVE ScoringLoop(_, _, _, _)
ScoringLoop(rules, i, score, max) ==
    IF i > Len(rules) THEN [ai_score |-> score, max_score |-> max]
    ELSE ScoringLoop(rules, i + 1,
            IF rules[i].condition THEN score + rules[i].weight ELSE score,
            max + rules[i].weight)

\* ai_score and max_score after the loop
ScoringPass(f) == ScoringLoop(scoring_rules(f), 1, 0, 0)

\* the indices of the rules whose condition holds
Fired(f) == {i \in 1..Len(scoring_rules(f)) : scoring_rules(f)[i].condition}

\* the fraction ai_score / max_score without the `* 100`
PercentageAsFraction(score, max) == IF max > 0 THEN Ratio(score, max) ELSE Ratio(0, 1)

\* ai_percentage before rounding, as a ratio
Percentage(score, max) == IF max > 0 THEN Ratio(score * 100, max) ELSE Ratio(0, 1)

\* r >= k
RatioAtLeast(r, k) == r.num >= k * r.den

\* the summary with the strong tier starting above 50 instead of at 50
_generate_analysis_summary_above50(f, ai_percentage) ==
    LET summary_parts ==
            (IF f.ai_variable_count > 3
                THEN <<"Uses generic variable naming patterns">> ELSE <<>>)
         \o (IF f.comment_grammar_issues > 2
                THEN <<"Contains grammar issues in comments">> ELSE <<>>)
         \o (IF f.common_library_count > 2
                THEN <<"Heavy use of common AI libraries">> ELSE <<>>)
         \o (IF RatioLess(f.indent_consistency, 64, 100)
                THEN <<"Inconsistent indentation patterns">> ELSE <<>>)
         \o (IF f.function_count > 5
                THEN <<"High function density">> ELSE <<>>)
         \o (IF RatioGreater(ai_percentage, 50, 1)
                THEN <<"Strong indicators of AI generation">>
             ELSE IF RatioAtLeast(ai_percentage, 30)
                THEN <<"Moderate indicators of AI generation">>
             ELSE <<"Appears to be human-written">>)
    IN  IF summary_parts # <<>> THEN summary_parts
        ELSE <<"No significant patterns detected">>

_generate_analysis_summary(f, ai_percentage) ==
    LET summary_parts ==
            (IF f.ai_variable_count > 3
                THEN <<"Uses generic variable naming patterns">> ELSE <<>>)
         \o (IF f.comment_grammar_issues > 2
                THEN <<"Contains grammar issues in comments">> ELSE <<>>)
         \o (IF f.common_library_count > 2
                THEN <<"Heavy use of common AI libraries">> ELSE <<>>)
         \o (IF RatioLess(f.indent_consistency, 64, 100)
                THEN <<"Inconsistent indentation patterns">> ELSE <<>>)
         \o (IF f.function_count > 5
                THEN <<"High function density">> ELSE <<>>)
         \o (IF RatioAtLeast(ai_percentage, 50)
                THEN <<"Strong indicators of AI generation">>
             ELSE IF RatioAtLeast(ai_percentage, 30)
                THEN <<"Moderate indicators of AI generation">>
             ELSE <<"Appears to be human-written">>)
    IN  IF summary_parts # <<>> THEN summary_parts
        ELSE <<"No significant patterns detected">>

\* the scoring with the verdict taken from the percentage rounded to a whole
\* number
ScoreFeaturesWholePercent(f) ==
    LET pass == ScoringPass(f)
        ai_percentage == Percentage(pass.ai_score, pass.max_score)
    IN  [is_ai_generated |->
            (2 * ai_percentage.num + ai_percentage.den) \div (2 * ai_percentage.den) >= 30,
         ai_percentage |-> Round2(ai_percentage),
         features |-> f,
         analysis_summary |-> _generate_analysis_summary(f, ai_percentage)]

\* detect_ai_generated from the feature record on (lines 244-282)
ScoreFeatures(f) ==
    LET pass == ScoringPass(f)
        ai_percentage == Percentage(pass.ai_score, pass.max_score)
    IN  [is_ai_generated |-> RatioAtLeast(ai_percentage, 30),
         ai_percentage |-> Round2(ai_percentage),
         features |-> f,
         analysis_summary |-> _generate_analysis_summary(f, ai_percentage)]

\* a detector that calibrates against the store: it never reports less than the
\* last stored record
detect_ai_generated_history(text, filename) ==
    LET fresh == ScoreFeatures(extract_features(text))
        last == analysis_results[Len(analysis_results)]
    IN  IF analysis_results = <<>> THEN fresh
        ELSE [fresh EXCEPT !.ai_percentage = Max(fresh.ai_percentage, last.ai_percentage)]

detect_ai_generated(text, filename) == ScoreFeatures(extract_features(text))

----------------------------------------------------------------------------
(* The thirteen-check detector (app.py, detect_ai_generated_code) *)

CheckNames ==
    {"formatting", "comments", "library_usage", "repetitiveness", "complexity",
     "patterns", "magic_numbers", "commit_history", "tooling_and_formatting",
     "file_dependencies", "variable_naming", "algorithm_patterns",
     "refactoring_patterns"}

\* check_commit_history and check_tooling_and_formatting return False; the greedy
\* r'\{.*\}' of check_code_complexity matches at most once, never more than 3 times
AlwaysFalseChecks == {"commit_history", "tooling_and_formatting", "complexity"}

CheckVectors ==
    {c \in [CheckNames -> BOOLEAN] : \A k \in AlwaysFalseChecks : ~c[k]}

\* sum(checks.values())
ChecksPassed(c) == Cardinality({k \in DOMAIN c : c[k]})

detect_ai_generated_code(c) ==
    LET ai_likelihood == Ratio(ChecksPassed(c) * 100, Cardinality(DOMAIN c))
    IN  [is_ai_generated |-> RatioAtLeast(ai_likelihood, 30),
         ai_percentage |-> ai_likelihood]

----------------------------------------------------------------------------
(* Single analyses: the detector applied to an input *)

\* no /api/history request is being served
NoHistory == [status |-> "idle"]

NoText == [none |-> TRUE]

NoFeatures == [none |-> TRUE]

NoResult == [none |-> TRUE]

NoChecks == [none |-> TRUE]

\* filename=None
NoFilename == <<>>

RuleIndices == 1..12

\* The feature record in which exactly the rules of S hold, each feature at its
\* threshold or one step past it.
RecordFiring(S) ==
    [ai_variable_count |-> IF 1 \in S THEN 4 ELSE 3,
     comment_grammar_issues |-> IF 2 \in S THEN 3 ELSE 2,
     common_library_count |-> IF 3 \in S THEN 3 ELSE 2,
     ai_pattern_matches |-> IF 4 \in S THEN 3 ELSE 2,
     indent_consistency |-> IF 5 \in S THEN Ratio(1, 4) ELSE Ratio(4, 1),
     operator_spacing_consistency |-> IF 6 \in S THEN Ratio(2, 3) ELSE Ratio(7, 10),
     function_count |-> IF 7 \in S THEN 6 ELSE 5,
     cyclomatic_complexity |-> IF 8 \in S THEN 6 ELSE 5,
     avg_line_length |-> IF 9 \in S THEN Ratio(201, 2) ELSE Ratio(100, 1),
     max_line_length |-> IF 10 \in S THEN 121 ELSE 120,
     has_docstrings |-> 11 \in S,
     has_main_guard |-> 12 \in S]

FeatureRecords == {RecordFiring(S) : S \in SUBSET RuleIndices}

PureIdle ==
    /\ code = NoText
    /\ features = NoFeatures
    /\ featuresB = NoFeatures
    /\ checks = NoChecks

NotScored ==
    /\ pc = "input"
    /\ ai_score = 0
    /\ max_score = 0
    /\ result = NoResult
    /\ resultB = NoResult
    /\ legacy_result = NoResult

\* test2.py as imported: the globals at their initial values, nothing running
FolderIdle ==
    /\ folder_pc = "idle"
    /\ files_to_analyze = <<>>
    /\ total_files = 0
    /\ completed_files = 0
    /\ total_ai_lines = 0
    /\ total_human_lines = 0
    /\ total_generic_count = 0
    /\ total_comments = 0
    /\ total_misspelled_words = 0
    /\ ai_percentages = <<>>
    /\ human_percentages = <<>>
    /\ worker = <<>>

ServerIdle ==
    /\ analysis_results = <<>>
    /\ thread = <<>>
    /\ upload = <<>>
    /\ history = NoHistory
    /\ tool = "available"
    /\ FolderIdle

\* detector.detect_ai_generated(code) on the input text
Detect ==
    /\ pc = "input"
    /\ code # NoText
    /\ result' = detect_ai_generated(code, NoFilename)
    /\ features' = extract_features(code)
    /\ ai_score' = ScoringPass(features').ai_score
    /\ max_score' = ScoringPass(features').max_score
    /\ pc' = "done"
    /\ UNCHANGED <<tool, folder, history, AI_DETECTION_THRESHOLD, code, featuresB, resultB, checks,
                   legacy_result, analysis_results, thread, upload>>

\* the scoring engine on one feature record
Score ==
    /\ pc = "input"
    /\ features # NoFeatures
    /\ featuresB = NoFeatures
    /\ result' = ScoreFeatures(features)
    /\ ai_score' = ScoringPass(features).ai_score
    /\ max_score' = ScoringPass(features).max_score
    /\ pc' = "done"
    /\ UNCHANGED <<tool, folder, history, AI_DETECTION_THRESHOLD, code, features, featuresB, resultB, checks,
                   legacy_result, analysis_results, thread, upload>>

\* the scoring engine on two feature records, one call after the other
ScoreBoth ==
    /\ pc = "input"
    /\ features # NoFeatures
    /\ featuresB # NoFeatures
    /\ result' = ScoreFeatures(features)
    /\ resultB' = ScoreFeatures(featuresB)
    /\ ai_score' = ScoringPass(featuresB).ai_score
    /\ max_score' = ScoringPass(featuresB).max_score
    /\ pc' = "done"
    /\ UNCHANGED <<tool, folder, history, AI_DETECTION_THRESHOLD, code, features, featuresB, checks,
                   legacy_result, analysis_results, thread, upload>>

\* app.py: detect_ai_generated_code on the outcome of its thirteen checks
LegacyDetect ==
    /\ pc = "input"
    /\ checks # NoChecks
    /\ legacy_result' = detect_ai_generated_code(checks)
    /\ pc' = "done"
    /\ UNCHANGED <<tool, folder, history, AI_DETECTION_THRESHOLD, code, features, featuresB, ai_score, max_score,
                   result, resultB, checks, analysis_results, thread, upload>>

\* One text, analysed once.
InitDetect ==
    /\ AI_DETECTION_THRESHOLD = 30
    /\ NotScored
    /\ ServerIdle
    /\ code \in Texts
    /\ features = NoFeatures
    /\ featuresB = NoFeatures
    /\ checks = NoChecks

NextDetect == Detect

SpecDetect == InitDetect /\ [][NextDetect]_vars

\* One feature record (or one outcome of the thirteen checks), scored once, under
\* each configured threshold.
InitRules ==
    /\ AI_DETECTION_THRESHOLD \in ThresholdValues
    /\ NotScored
    /\ ServerIdle
    /\ code = NoText
    /\ featuresB = NoFeatures
    /\ \/ features \in FeatureRecords /\ checks = NoChecks
       \/ features = NoFeatures /\ checks \in CheckVectors

NextRules == Score \/ LegacyDetect

SpecRules == InitRules /\ [][NextRules]_vars

\* Two feature records, the rules firing for the second among those firing for
\* the first.
InitPair ==
    /\ AI_DETECTION_THRESHOLD = 30
    /\ NotScored
    /\ ServerIdle
    /\ code = NoText
    /\ checks = NoChecks
    /\ \E S \in SUBSET RuleIndices : \E T \in SUBSET S :
            /\ features = RecordFiring(S)
            /\ featuresB = RecordFiring(T)

NextPair == ScoreBoth

SpecPair == InitPair /\ [][NextPair]_vars

----------------------------------------------------------------------------
(* The thirteen checks of app.py, computed from a text *)

check_perfect_formatting(text) ==
    LET non_blank == NonEmptyLines(text)
        n == Len(non_blank)
        same == Len(SelectSeq(non_blank, LAMBDA l : l.indent = non_blank[1].indent))
    IN  IF n = 0 THEN FALSE ELSE same * 100 >= 80 * n

\* tool = language_tool_python.LanguageTool('en-US'): a server process the
\* program talks to; it answers, or the call raises
ToolStates == {"available", "failing"}

\* tool.check(comment): the matches LanguageTool reports for the comment, or the
\* exception of a checker that cannot be reached
tool_check(line) ==
    IF tool = "failing" THEN [raised |-> "LanguageToolError"]
    ELSE [matches |-> CommentIssues(line)]

\* check_comment_grammar: nothing catches what tool.check raises
check_comment_grammar(text) ==
    LET comments == SelectSeq(text.lines, LAMBDA l : l.has_comment)
    IN  IF \E i \in 1..Len(comments) : "raised" \in DOMAIN tool_check(comments[i])
        THEN [raised |-> "LanguageToolError"]
        ELSE [value |->
                SumSeq([i \in 1..Len(comments) |-> tool_check(comments[i]).matches]) > 2]

check_library_usage(text) ==
    LET common_ai_libraries ==
            {"numpy", "pandas", "matplotlib", "tensorflow", "keras", "sklearn"}
        present == UNION {text.lines[i].libs : i \in 1..Len(text.lines)}
    IN  Cardinality(common_ai_libraries \cap present) > 2

check_repetitiveness(text) ==
    LET common_variable_names ==
            {"temp", "result", "value", "data", "item", "count", "i", "j"}
        words == AllWords(text.lines)
        variable_names == {words[i].base : i \in {j \in 1..Len(words) : words[j].digits = 0}}
    IN  \/ Len(SelectSeq(AllWords(text.lines), LAMBDA w : w = Word("def"))) > 5
        \/ Cardinality(common_variable_names \cap variable_names) > 2

\* the greedy r'\{.*\}' with re.DOTALL runs from the first '{' to the last '}'
check_code_complexity(text) ==
    LET nested_blocks ==
            IF \E i \in 1..Len(text.lines) : text.lines[i].brace_groups > 0 THEN 1 ELSE 0
    IN  nested_blocks > 3

check_repeated_patterns(text) ==
    SumSeq([i \in 1..Len(text.lines) |-> text.lines[i].brace_groups \div 2]) > 2

check_magic_numbers(text) ==
    SumSeq([i \in 1..Len(text.lines) |-> text.lines[i].numbers]) > 5

check_file_dependencies(text) == Len(SelectSeq(AllWords(text.lines), LAMBDA w : w.base = "import")) > 2

check_variable_naming_patterns(text) ==
    Len(SelectSeq(AllWords(text.lines), LAMBDA w : w.base = "var" /\ w.digits >= 3)) > 2

check_algorithm_patterns(text) ==
    /\ Len(SelectSeq(AllWords(text.lines), LAMBDA w : w.base = "for")) > 0
    /\ Len(SelectSeq(AllWords(text.lines), LAMBDA w : w.base = "range")) > 0

check_refactoring_patterns(text) ==
    Len(SelectSeq(AllWords(text.lines), LAMBDA w : w.base \in {"function", "class"})) > 5

\* the dict checks of detect_ai_generated_code
LegacyChecks(text) ==
    [formatting |-> check_perfect_formatting(text),
     comments |-> check_comment_grammar(text).value,
     library_usage |-> check_library_usage(text),
     repetitiveness |-> check_repetitiveness(text),
     complexity |-> check_code_complexity(text),
     patterns |-> check_repeated_patterns(text),
     magic_numbers |-> check_magic_numbers(text),
     commit_history |-> FALSE,
     tooling_and_formatting |-> FALSE,
     file_dependencies |-> check_file_dependencies(text),
     variable_naming |-> check_variable_naming_patterns(text),
     algorithm_patterns |-> check_algorithm_patterns(text),
     refactoring_patterns |-> check_refactoring_patterns(text)]

----------------------------------------------------------------------------
(* File names *)

\* A file name is the sequence of its dot-separated parts: "a.tar.py" is
\* <<"a", "tar", "py">>, "unknown" is <<"unknown">>, ".py" is <<"", "py">>.
HasDot(filename) == Len(filename) > 1

\* filename.rsplit('.', 1)[1].lower(), for a name with a dot
Extension(filename) == Lower(filename[Len(filename)])

\* app_simple.py
ALLOWED_EXTENSIONS ==
    {"txt", "py", "java", "js", "cpp", "html", "css", "php", "rb", "go", "rs",
     "swift", "kt"}

\* app.py
LEGACY_ALLOWED_EXTENSIONS == {"txt", "py", "java", "js", "cpp", "html", "css", "php"}

\* the check without .lower()
allowed_file_case_sensitive(filename) ==
    HasDot(filename) /\ filename[Len(filename)] \in ALLOWED_EXTENSIONS

allowed_file(filename) == HasDot(filename) /\ Extension(filename) \in ALLOWED_EXTENSIONS

legacy_allowed_file(filename) ==
    HasDot(filename) /\ Extension(filename) \in LEGACY_ALLOWED_EXTENSIONS

language_map ==
    [py |-> "Python", java |-> "Java", js |-> "JavaScript", cpp |-> "C++",
     html |-> "HTML", css |-> "CSS", php |-> "PHP", rb |-> "Ruby", go |-> "Go",
     rs |-> "Rust", swift |-> "Swift", kt |-> "Kotlin"]

\* get_language_from_extension: rsplit('.', 1)[1] of a name without a dot raises
\* IndexError
get_language_from_extension(filename) ==
    IF ~HasDot(filename) THEN [raised |-> "IndexError"]
    ELSE [language |-> IF Extension(filename) \in DOMAIN language_map
                       THEN language_map[Extension(filename)] ELSE "Unknown"]

Raised(outcome) == "raised" \in DOMAIN outcome

\* hashlib.sha256(content.encode('utf-8')).hexdigest(): the digest names the content
calculate_file_hash(content) == <<"sha256", content>>

----------------------------------------------------------------------------
(* /api/analyze and the analysis store (app_simple.py) *)

\* Flask serves each request on a thread of its own
Threads == {"t1", "t2"}

\* "        Temp=data+result1+value" alone: the naming rule fires
GenericText == Text(<<GenericLine>>, FlatModule)

\* three main guards and a comment, unparseable: four rules fire
IdiomText ==
    Text(<<MainGuardLine, MainGuardLine, MainGuardLine, CommentLine, CommentLine>>,
         ParseError)

ApiTexts == {EmptyText, GenericText, IdiomText}

ApiFilenames == {<<"a", "py">>, <<"notes">>}

\* data.get('filename', 'unknown')
DefaultFilename == <<"unknown">>

\* request.get_json(): nothing, or a dict that may hold 'code' and 'filename'
JsonBody(has_code, c, has_filename, fn) ==
    [empty |-> FALSE, has_code |-> has_code, code |-> c,
     has_filename |-> has_filename, filename |-> fn]

NoBody == [empty |-> TRUE, has_code |-> FALSE, code |-> NoText,
           has_filename |-> FALSE, filename |-> <<>>]

ApiRequests ==
    {NoBody, JsonBody(FALSE, NoText, FALSE, <<>>)}
        \cup {JsonBody(TRUE, c, FALSE, <<>>) : c \in ApiTexts}
        \cup {JsonBody(TRUE, c, TRUE, fn) : <<c, fn>> \in ApiTexts \X ApiFilenames}

NoRecord == [none |-> TRUE]

NoResponse == [status |-> 0, body |-> NoRecord]

Response(status, body) == [status |-> status, body |-> body]

IdleThread ==
    [pc |-> "idle", request |-> NoBody, analysis_result |-> NoRecord,
     response |-> NoResponse]

\* api_analyze up to the record it is about to store (lines 341-363): the
\* response of an early return or of the except clause, or the record.
ApiAnalyze(data) ==
    IF data.empty \/ ~data.has_code
    THEN [response |-> Response(400, [error |-> "No code provided"])]
    ELSE
        LET filename == IF data.has_filename THEN data.filename ELSE DefaultFilename
            analysis == detect_ai_generated(data.code, filename)
            language == get_language_from_extension(filename)
        IN  IF Raised(language)
            THEN [response |-> Response(500, [error |-> language.raised])]
            ELSE [analysis_result |->
                    [id |-> Len(analysis_results) + 1,
                     filename |-> filename,
                     file_hash |-> calculate_file_hash(data.code),
                     file_size |-> Characters(data.code),
                     language |-> language.language,
                     ai_percentage |-> analysis.ai_percentage,
                     is_ai_generated |-> analysis.is_ai_generated,
                     analysis_details |-> analysis]]

\* A thread takes a request and runs api_analyze up to the store.
ApiReceive(t, data) ==
    /\ thread[t].pc = "idle"
    /\ Len(analysis_results) < MaxStore
    /\ LET outcome == ApiAnalyze(data)
       IN  thread' = [thread EXCEPT ![t] =
                IF "response" \in DOMAIN outcome
                THEN [pc |-> "responded", request |-> data,
                      analysis_result |-> NoRecord, response |-> outcome.response]
                ELSE [pc |-> "computed", request |-> data,
                      analysis_result |-> outcome.analysis_result,
                      response |-> NoResponse]]
    /\ UNCHANGED <<tool, folder, history, AI_DETECTION_THRESHOLD, pc, code, features, ai_score, max_score,
                   result, featuresB, resultB, checks, legacy_result,
                   analysis_results, upload>>

\* analysis_results.append(analysis_result); return jsonify(analysis_result)
ApiStore(t) ==
    /\ thread[t].pc = "computed"
    /\ analysis_results' = Append(analysis_results, thread[t].analysis_result)
    /\ thread' = [thread EXCEPT ![t].pc = "responded",
                                ![t].response = Response(200, thread[t].analysis_result)]
    /\ UNCHANGED <<tool, folder, history, AI_DETECTION_THRESHOLD, pc, code, features, ai_score, max_score,
                   result, featuresB, resultB, checks, legacy_result, upload>>

\* the response is sent; the thread is free for the next request
ApiDone(t) ==
    /\ thread[t].pc = "responded"
    /\ thread' = [thread EXCEPT ![t] = IdleThread]
    /\ UNCHANGED <<tool, folder, history, AI_DETECTION_THRESHOLD, pc, code, features, ai_score, max_score,
                   result, featuresB, resultB, checks, legacy_result,
                   analysis_results, upload>>

----------------------------------------------------------------------------
(* /api/history and /api/stats: the read-only views of the store *)

Min(a, b) == IF a < b THEN a ELSE b

\* Python's a // b for b # 0: the quotient rounded towards minus infinity
FloorDiv(a, b) == IF b > 0 THEN a \div b ELSE (0 - a) \div (0 - b)

\* where a slice bound lands in a list of n items: a negative bound counts from
\* the end, and both ends are clamped
SliceBound(i, n) == IF i < 0 THEN Max(i + n, 0) ELSE Min(i, n)

\* seq[start:end]
Slice(seq, start, end) ==
    LET lo == SliceBound(start, Len(seq))
        hi == SliceBound(end, Len(seq))
    IN  IF lo >= hi THEN <<>> ELSE SubSeq(seq, lo + 1, hi)

\* the handler with pages counted from 0: start_idx = page * per_page
api_history_from_page_0(page, per_page) ==
    LET start_idx == page * per_page
        end_idx == start_idx + per_page
        page_results == Slice(analysis_results, start_idx, end_idx)
    IN  IF per_page = 0 THEN [raised |-> "ZeroDivisionError"]
        ELSE [results |-> page_results,
              total |-> Len(analysis_results),
              pages |-> FloorDiv(Len(analysis_results) + per_page - 1, per_page),
              current_page |-> page]

\* api_history for ?page=..&per_page=..; per_page=0 divides by zero in 'pages'
api_history(page, per_page) ==
    LET start_idx == (page - 1) * per_page
        end_idx == start_idx + per_page
        page_results == Slice(analysis_results, start_idx, end_idx)
    IN  IF per_page = 0 THEN [raised |-> "ZeroDivisionError"]
        ELSE [results |-> page_results,
              total |-> Len(analysis_results),
              pages |-> FloorDiv(Len(analysis_results) + per_page - 1, per_page),
              current_page |-> page]

\* api_stats; avg_ai_percentage is kept in hundredths like ai_percentage
api_stats ==
    LET n == Len(analysis_results)
        total_analyses == n
        ai_generated_count ==
            Len(SelectSeq(analysis_results, LAMBDA r : r.is_ai_generated))
        sum == SumSeq([i \in 1..n |-> analysis_results[i].ai_percentage])
        languages == {analysis_results[i].language : i \in 1..n}
    IN  [total_analyses |-> total_analyses,
         ai_generated_count |-> ai_generated_count,
         human_written_count |-> total_analyses - ai_generated_count,
         avg_ai_percentage |-> IF n = 0 THEN 0 ELSE (2 * sum + n) \div (2 * n),
         language_distribution |->
            [lang \in languages |->
                Len(SelectSeq(analysis_results, LAMBDA r : r.language = lang))]]

----------------------------------------------------------------------------
(* /analyze_files: the upload handler of app_simple.py and the one of app.py *)

\* An uploaded file: its name and its bytes, which are the UTF-8 encoding of a
\* text or are not valid UTF-8.
File(fn, utf8, text) == [filename |-> fn, utf8 |-> utf8, content |-> text]

UploadFilenames ==
    {<<"a", "py">>, <<"b", "PY">>, <<"k", "kt">>, <<"notes">>, <<"run", "exe">>,
     <<"c", "py", "exe">>}

UploadFiles ==
    {File(fn, TRUE, GenericText) : fn \in UploadFilenames}
        \cup {File(fn, FALSE, NoText) : fn \in UploadFilenames}
        \cup {File(<<"a", "py">>, TRUE, IdiomText)}

Apps == {"app_simple", "app"}

NoUpload == [status |-> "idle"]

\* the request arrives: 'files' missing or empty renders the index page with a
\* message, otherwise the loop over the files starts
UploadReceive(app, has_files, files) ==
    /\ upload.status = "idle"
    /\ upload' =
        IF ~has_files \/ files = <<>>
        THEN [status |-> "message", app |-> app, files |-> <<>>, pos |-> 1,
              results |-> <<>>, decoded |-> <<>>, analysed |-> <<>>]
        ELSE [status |-> "running", app |-> app, files |-> files, pos |-> 1,
              results |-> <<>>, decoded |-> <<>>, analysed |-> <<>>]
    /\ UNCHANGED <<tool, folder, history, AI_DETECTION_THRESHOLD, pc, code, features, ai_score, max_score,
                   result, featuresB, resultB, checks, legacy_result,
                   analysis_results, thread>>

\* app_simple.py: the body of `for file in files` for one file. decoded and
\* analysed record the positions whose bytes were decoded and whose text was
\* handed to the detector.
SimpleUploadStep(u) ==
    LET file == u.files[u.pos]
        analysis == detect_ai_generated(file.content, file.filename)
        language == get_language_from_extension(file.filename)
    IN  IF ~allowed_file(file.filename)
        THEN [u EXCEPT !.pos = u.pos + 1]
        ELSE IF ~file.utf8
        THEN [u EXCEPT !.pos = u.pos + 1,
                       !.decoded = Append(u.decoded, u.pos),
                       !.results = Append(u.results,
                            [filename |-> file.filename, error |-> "UnicodeDecodeError"])]
        ELSE IF Raised(language)
        THEN [u EXCEPT !.pos = u.pos + 1,
                       !.decoded = Append(u.decoded, u.pos),
                       !.analysed = Append(u.analysed, u.pos),
                       !.results = Append(u.results,
                            [filename |-> file.filename, error |-> language.raised])]
        ELSE [u EXCEPT !.pos = u.pos + 1,
                       !.decoded = Append(u.decoded, u.pos),
                       !.analysed = Append(u.analysed, u.pos),
                       !.results = Append(u.results,
                            [filename |-> file.filename,
                             file_hash |-> calculate_file_hash(file.content),
                             file_size |-> Characters(file.content),
                             language |-> language.language,
                             ai_percentage |-> analysis.ai_percentage,
                             is_ai_generated |-> analysis.is_ai_generated,
                             analysis_details |-> analysis])]

\* app.py: the body of `for file in files` for one file; nothing catches the
\* UnicodeDecodeError of decode('utf-8') or what the grammar checker raises, the
\* request ends in an error
LegacyUploadStep(u) ==
    LET file == u.files[u.pos]
        analysis == detect_ai_generated_code(LegacyChecks(file.content))
    IN  IF ~legacy_allowed_file(file.filename)
        THEN [u EXCEPT !.pos = u.pos + 1]
        ELSE IF ~file.utf8
        THEN [u EXCEPT !.status = "aborted",
                       !.decoded = Append(u.decoded, u.pos)]
        ELSE IF Raised(check_comment_grammar(file.content))
        THEN [u EXCEPT !.status = "aborted",
                       !.decoded = Append(u.decoded, u.pos)]
        ELSE [u EXCEPT !.pos = u.pos + 1,
                       !.decoded = Append(u.decoded, u.pos),
                       !.analysed = Append(u.analysed, u.pos),
                       !.results = Append(u.results,
                            [filename |-> file.filename,
                             is_ai_generated |-> analysis.is_ai_generated,
                             ai_percentage |-> analysis.ai_percentage])]

UploadFile ==
    /\ upload.status = "running"
    /\ upload.pos <= Len(upload.files)
    /\ upload' = IF upload.app = "app_simple" THEN SimpleUploadStep(upload)
                 ELSE LegacyUploadStep(upload)
    /\ UNCHANGED <<tool, folder, history, AI_DETECTION_THRESHOLD, pc, code, features, ai_score, max_score,
                   result, featuresB, resultB, checks, legacy_result,
                   analysis_results, thread>>

\* return render_template('analysis_results.html', analysis_results=results)
UploadRender ==
    /\ upload.status = "running"
    /\ upload.pos > Len(upload.files)
    /\ upload' = [upload EXCEPT !.status = "rendered"]
    /\ UNCHANGED <<tool, folder, history, AI_DETECTION_THRESHOLD, pc, code, features, ai_score, max_score,
                   result, featuresB, resultB, checks, legacy_result,
                   analysis_results, thread>>

InitUpload ==
    /\ AI_DETECTION_THRESHOLD = 30
    /\ NotScored
    /\ PureIdle
    /\ analysis_results = <<>>
    /\ thread = <<>>
    /\ upload = NoUpload
    /\ history = NoHistory
    /\ tool \in ToolStates
    /\ FolderIdle

NextUpload ==
    \/ \E app \in Apps, has_files \in BOOLEAN, files \in SeqsUpTo(UploadFiles, MaxFiles) :
            UploadReceive(app, has_files, files)
    \/ UploadFile
    \/ UploadRender

SpecUpload == InitUpload /\ [][NextUpload]_vars

----------------------------------------------------------------------------
(* The server: /api/analyze requests on concurrent threads *)

Init ==
    /\ AI_DETECTION_THRESHOLD = 30
    /\ NotScored
    /\ PureIdle
    /\ analysis_results = <<>>
    /\ thread = [t \in Threads |-> IdleThread]
    /\ upload = NoUpload
    /\ history = NoHistory
    /\ tool = "available"
    /\ FolderIdle

Next ==
    \/ \E t \in Threads, data \in ApiRequests : ApiReceive(t, data)
    \/ \E t \in Threads : ApiStore(t)
    \/ \E t \in Threads : ApiDone(t)

Spec == Init /\ [][Next]_vars


----------------------------------------------------------------------------
(* /api/history requests against a store that /api/analyze fills *)

\* a query parameter: absent from the URL, or given with an integer value
Absent == [given |-> FALSE]

Given(n) == [given |-> TRUE, value |-> n]

\* request.args.get(name, default, type=int)
ArgsGet(arg, default) == IF arg.given THEN arg.value ELSE default

\* the page and per_page values the requests carry: from below the first page
\* to past the last, and page sizes down to 0 and -1
PageArgs == {Absent} \cup {Given(n) : n \in (0 - 2)..(MaxStore + 1)}

PerPageArgs == {Absent} \cup {Given(n) : n \in (0 - 1)..MaxStore}

\* GET /api/history: the handler runs to its response; the exception of
\* per_page=0 becomes the server's 500
ApiHistory(page_arg, per_page_arg) ==
    /\ history.status = "idle"
    /\ LET page == ArgsGet(page_arg, 1)
           per_page == ArgsGet(per_page_arg, 10)
           outcome == api_history(page, per_page)
       IN  history' =
                [status |-> "responded", page |-> page, per_page |-> per_page,
                 response |-> IF Raised(outcome)
                              THEN Response(500, [error |-> outcome.raised])
                              ELSE Response(200, outcome)]
    /\ UNCHANGED <<AI_DETECTION_THRESHOLD, pc, code, features, ai_score, max_score,
                   result, featuresB, resultB, checks, legacy_result,
                   analysis_results, thread, upload, tool, folder>>

\* the response is sent
HistoryDone ==
    /\ history.status = "responded"
    /\ history' = NoHistory
    /\ UNCHANGED <<AI_DETECTION_THRESHOLD, pc, code, features, ai_score, max_score,
                   result, featuresB, resultB, checks, legacy_result,
                   analysis_results, thread, upload, tool, folder>>

\* the /api/analyze bodies that fill the store under the history requests
HistoryFeed == {JsonBody(TRUE, GenericText, TRUE, <<"a", "py">>)}

NextHistory ==
    \/ \E t \in Threads, data \in HistoryFeed : ApiReceive(t, data)
    \/ \E t \in Threads : ApiStore(t)
    \/ \E t \in Threads : ApiDone(t)
    \/ \E page_arg \in PageArgs, per_page_arg \in PerPageArgs :
            ApiHistory(page_arg, per_page_arg)
    \/ HistoryDone

SpecHistory == Init /\ [][NextHistory]_vars

----------------------------------------------------------------------------
(* The folder analyser (templates/test2.py) *)

\* A line of a file under analyze_code, by what the function tests on the
\* stripped line: how it starts (kind), its whitespace-separated tokens, whether
\* every token starts with a lower-case letter, how many tokens are generic
\* variable names, and the words of it the spell checker does not know.
SourceLine(kind, tokens, lowercase, generic, unknown) ==
    [kind |-> kind, tokens |-> tokens, lowercase |-> lowercase,
     generic |-> generic, unknown |-> unknown]

BlankSourceLine == SourceLine("blank", 0, TRUE, 0, {})

\* "# teh result of a run": the first token is "#", which is not lower case
CommentSourceLine == SourceLine("comment", 6, FALSE, 1, {"teh"})

\* "for item in data :"
LoopSourceLine == SourceLine("loop", 5, TRUE, 2, {})

\* "def process ( value ):"
DefSourceLine == SourceLine("def", 5, TRUE, 2, {})

\* "class Temp:"
ClassSourceLine == SourceLine("class", 2, FALSE, 0, {})

\* "    temp = data", four spaces deep in the file
OtherSourceLine == SourceLine("other", 3, TRUE, 2, {})

\* A file of the folder: its name, whether open/read succeed, its lines.
FolderFile(fn, readable, ls) == [filename |-> fn, readable |-> readable, lines |-> ls]

FolderFiles ==
    {FolderFile(<<"loops", "py">>, TRUE, <<LoopSourceLine, OtherSourceLine>>),
     FolderFile(<<"doc", "py">>, TRUE,
                <<CommentSourceLine, BlankSourceLine, DefSourceLine, ClassSourceLine>>),
     FolderFile(<<"empty", "js">>, TRUE, <<>>),
     FolderFile(<<"locked", "java">>, FALSE, <<>>),
     FolderFile(<<"notes", "txt">>, TRUE, <<OtherSourceLine>>)}

\* the folders process_folder is run on: none, one or two files in os.walk order
SampleFolders ==
    {<<>>} \cup {<<a>> : a \in FolderFiles}
           \cup {<<a, b>> : <<a, b>> \in FolderFiles \X FolderFiles}

\* file.endswith('.py') or file.endswith('.js') or file.endswith('.java')
EndsWithSourceExtension(filename) ==
    HasDot(filename) /\ filename[Len(filename)] \in {"py", "js", "java"}

\* the body of `for line in lines` for one line: what it adds to ai_lines,
\* human_lines, comments and generic_variable_count. The comment test is an `if`
\* of its own, the loop/def/class/else chain runs for comment lines too; the line
\* is stripped before r'^\s{4}.*' is tried, so that test never matches.
ClassifyLine(line) ==
    LET is_comment == line.kind = "comment"
        human_comment == is_comment /\ (line.tokens < 5 \/ ~line.lowercase)
        ai_comment == is_comment /\ ~human_comment
        structural == line.kind \in {"loop", "def", "class"}
        leading_spaces_after_strip == 0
        four_space == ~structural /\ leading_spaces_after_strip >= 4
    IN  IF line.kind = "blank"
        THEN [ai_lines |-> 0, human_lines |-> 0, comments |-> 0, generic |-> 0]
        ELSE [ai_lines |-> (IF ai_comment THEN 1 ELSE 0)
                            + (IF structural \/ ~four_space THEN 1 ELSE 0),
              human_lines |-> (IF human_comment THEN 1 ELSE 0)
                            + (IF four_space THEN 1 ELSE 0),
              comments |-> IF is_comment THEN 1 ELSE 0,
              generic |-> IF structural THEN 0 ELSE line.generic]

\* analyze_code from open() to the grammar check (lines 44-97): the locals the
\* totals are updated from, or the exception the except clause logs
AnalyzeLines(file) ==
    LET lines == file.lines
        n == Len(lines)
        per_line == [i \in 1..n |-> ClassifyLine(lines[i])]
        comments == SelectSeq(lines, LAMBDA l : l.kind = "comment")
        misspelled == UNION {comments[i].unknown : i \in 1..Len(comments)}
    IN  IF ~file.readable THEN [raised |-> "OSError"]
        ELSE IF n = 0 THEN [raised |-> "ZeroDivisionError"]
        ELSE IF comments # <<>> /\ tool = "failing" THEN [raised |-> "LanguageToolError"]
        ELSE [total_lines |-> n,
              ai_lines |-> SumSeq([i \in 1..n |-> per_line[i].ai_lines]),
              human_lines |-> SumSeq([i \in 1..n |-> per_line[i].human_lines]),
              generic_variable_count |-> SumSeq([i \in 1..n |-> per_line[i].generic]),
              comments |-> Len(comments),
              misspelled |-> Cardinality(misspelled)]

NoLocals ==
    [total_lines |-> 0, ai_lines |-> 0, human_lines |-> 0,
     generic_variable_count |-> 0, comments |-> 0, misspelled |-> 0]

\* an analyze_code call the executor has accepted and not started
SubmittedCall == [pc |-> "start", k |-> 1, reg |-> 0, locals |-> NoLocals, raised |-> ""]

\* the five totals of "Update totals for global analysis", in the order of the code
TotalNames ==
    <<"total_ai_lines", "total_human_lines", "total_generic_count", "total_comments",
      "total_misspelled_words">>

\* the global the k-th update reads
TotalValue(k) ==
    CASE k = 1 -> total_ai_lines
      [] k = 2 -> total_human_lines
      [] k = 3 -> total_generic_count
      [] k = 4 -> total_comments
      [] k = 5 -> total_misspelled_words

\* the local the k-th update adds
LocalValue(locals, k) ==
    CASE k = 1 -> locals.ai_lines
      [] k = 2 -> locals.human_lines
      [] k = 3 -> locals.generic_variable_count
      [] k = 4 -> locals.comments
      [] k = 5 -> locals.misspelled

\* process_folder up to executor.map: the walk, the extension filter, the reset
\* of total_files and completed_files, the early return on an empty list
ProcessFolder(entries) ==
    /\ folder_pc = "idle"
    /\ files_to_analyze' =
            SelectSeq(entries, LAMBDA f : EndsWithSourceExtension(f.filename))
    /\ total_files' = Len(files_to_analyze')
    /\ completed_files' = 0
    /\ folder_pc' = IF total_files' = 0 THEN "returned" ELSE "mapping"
    /\ worker' = [i \in 1..total_files' |-> SubmittedCall]
    /\ UNCHANGED <<total_ai_lines, total_human_lines, total_generic_count,
                   total_comments, total_misspelled_words, ai_percentages,
                   human_percentages, web, tool>>

\* analyze_code on a pool thread, from open() to the grammar check; an exception
\* is logged by the except clause and the call returns
AnalyzeCode(i) ==
    /\ folder_pc = "mapping"
    /\ worker[i].pc = "start"
    /\ LET outcome == AnalyzeLines(files_to_analyze[i])
       IN  worker' = [worker EXCEPT ![i] =
                IF Raised(outcome)
                THEN [SubmittedCall EXCEPT !.pc = "done", !.raised = outcome.raised]
                ELSE [SubmittedCall EXCEPT !.pc = "load", !.locals = outcome]]
    /\ UNCHANGED <<folder_pc, files_to_analyze, total_files, completed_files,
                   total_ai_lines, total_human_lines, total_generic_count,
                   total_comments, total_misspelled_words, ai_percentages,
                   human_percentages, web, tool>>

\* `total += local`, first half: the thread reads the global
LoadTotal(i) ==
    /\ worker[i].pc = "load"
    /\ worker' = [worker EXCEPT ![i].pc = "store", ![i].reg = TotalValue(worker[i].k)]
    /\ UNCHANGED <<folder_pc, files_to_analyze, total_files, completed_files,
                   total_ai_lines, total_human_lines, total_generic_count,
                   total_comments, total_misspelled_words, ai_percentages,
                   human_percentages, web, tool>>

\* `total += local`, second half: the thread writes the sum back; no lock is held
\* between the two halves
StoreTotal(i) ==
    /\ worker[i].pc = "store"
    /\ LET k == worker[i].k
           sum == worker[i].reg + LocalValue(worker[i].locals, k)
       IN  /\ total_ai_lines' = IF k = 1 THEN sum ELSE total_ai_lines
           /\ total_human_lines' = IF k = 2 THEN sum ELSE total_human_lines
           /\ total_generic_count' = IF k = 3 THEN sum ELSE total_generic_count
           /\ total_comments' = IF k = 4 THEN sum ELSE total_comments
           /\ total_misspelled_words' = IF k = 5 THEN sum ELSE total_misspelled_words
           /\ worker' = [worker EXCEPT
                            ![i].pc = IF k < Len(TotalNames) THEN "load" ELSE "append",
                            ![i].k = IF k < Len(TotalNames) THEN k + 1 ELSE k]
    /\ UNCHANGED <<folder_pc, files_to_analyze, total_files, completed_files,
                   ai_percentages, human_percentages, web, tool>>

\* ai_percentages.append(ai_like); human_percentages.append(human_like), then the
\* logging calls
AppendPercentages(i) ==
    /\ worker[i].pc = "append"
    /\ LET locals == worker[i].locals
       IN  /\ ai_percentages' =
                Append(ai_percentages, Ratio(locals.ai_lines * 100, locals.total_lines))
           /\ human_percentages' =
                Append(human_percentages,
                       Ratio(locals.human_lines * 100, locals.total_lines))
    /\ worker' = [worker EXCEPT ![i].pc = "load_completed"]
    /\ UNCHANGED <<folder_pc, files_to_analyze, total_files, completed_files,
                   total_ai_lines, total_human_lines, total_generic_count,
                   total_comments, total_misspelled_words, web, tool>>

\* `completed_files += 1`, first half
LoadCompleted(i) ==
    /\ worker[i].pc = "load_completed"
    /\ worker' = [worker EXCEPT ![i].pc = "store_completed", ![i].reg = completed_files]
    /\ UNCHANGED <<folder_pc, files_to_analyze, total_files, completed_files,
                   total_ai_lines, total_human_lines, total_generic_count,
                   total_comments, total_misspelled_words, ai_percentages,
                   human_percentages, web, tool>>

\* `completed_files += 1`, second half, and display_progress(), which only prints
StoreCompleted(i) ==
    /\ worker[i].pc = "store_completed"
    /\ completed_files' = worker[i].reg + 1
    /\ worker' = [worker EXCEPT ![i].pc = "done"]
    /\ UNCHANGED <<folder_pc, files_to_analyze, total_files, total_ai_lines,
                   total_human_lines, total_generic_count, total_comments,
                   total_misspelled_words, ai_percentages, human_percentages,
                   web, tool>>

\* list(executor.map(...)) has every result and the with block has joined the pool
ProcessFolderReturn ==
    /\ folder_pc = "mapping"
    /\ \A i \in 1..Len(worker) : worker[i].pc = "done"
    /\ folder_pc' = "returned"
    /\ UNCHANGED <<files_to_analyze, total_files, completed_files, total_ai_lines,
                   total_human_lines, total_generic_count, total_comments,
                   total_misspelled_words, ai_percentages, human_percentages,
                   worker, web, tool>>

\* test2.py started on a folder, with the grammar checker up or failing
InitFolder ==
    /\ AI_DETECTION_THRESHOLD = 30
    /\ NotScored
    /\ PureIdle
    /\ analysis_results = <<>>
    /\ thread = <<>>
    /\ upload = <<>>
    /\ history = NoHistory
    /\ tool \in ToolStates
    /\ FolderIdle

NextFolder ==
    \/ \E entries \in SampleFolders : ProcessFolder(entries)
    \/ \E i \in DOMAIN worker : AnalyzeCode(i)
    \/ \E i \in DOMAIN worker : LoadTotal(i)
    \/ \E i \in DOMAIN worker : StoreTotal(i)
    \/ \E i \in DOMAIN worker : AppendPercentages(i)
    \/ \E i \in DOMAIN worker : LoadCompleted(i)
    \/ \E i \in DOMAIN worker : StoreCompleted(i)
    \/ ProcessFolderReturn

SpecFolder == InitFolder /\ [][NextFolder]_vars

----------------------------------------------------------------------------
(* Claims *)

\* the records api_analyze has built so far: the stored ones and the ones a
\* thread is about to store
BuiltRecords ==
    {analysis_results[i] : i \in DOMAIN analysis_results}
        \cup {thread[t].analysis_result : t \in {u \in Threads : thread[u].pc = "computed"}}

C2_PercentageBounds ==
    /\ result # NoResult => result.ai_percentage >= 0 /\ result.ai_percentage <= 10000
    /\ legacy_result # NoResult =>
            /\ legacy_result.ai_percentage.num >= 0
            /\ legacy_result.ai_percentage.num <= 100 * legacy_result.ai_percentage.den

\* every rule fires: the percentage is at its upper bound
C2_Witness ==
    /\ pc = "done"
    /\ result # NoResult
    /\ Fired(features) = RuleIndices
    /\ result.ai_percentage = 10000

\* C3: analysing the empty string yields ai_percentage 0, is_ai_generated False
\* and the complexity triple 1, 1, 0.
C3_EmptyInput ==
    pc = "done" /\ code = EmptyText =>
        /\ result.ai_percentage = 0
        /\ ~result.is_ai_generated
        /\ result.features.cyclomatic_complexity = 1
        /\ result.features.nesting_depth = 1
        /\ result.features.branch_count = 0

ResultKeys == {"is_ai_generated", "ai_percentage", "features", "analysis_summary"}

RuleFeatureKeys ==
    {"ai_variable_count", "comment_grammar_issues", "common_library_count",
     "ai_pattern_matches", "indent_consistency", "operator_spacing_consistency",
     "function_count", "cyclomatic_complexity", "avg_line_length",
     "max_line_length", "has_docstrings", "has_main_guard"}

\* C4: a text that does not parse gets complexity 1, nesting depth 1 and branch
\* count 0, and its analysis returns a complete result.
C4_ParseFailureFallback ==
    pc = "done" /\ code # NoText /\ code.ast = ParseError =>
        /\ DOMAIN result = ResultKeys
        /\ RuleFeatureKeys \subseteq DOMAIN result.features
        /\ result.features.cyclomatic_complexity = 1
        /\ result.features.nesting_depth = 1
        /\ result.features.branch_count = 0
        /\ result.ai_percentage \in 0..10000

\* an unparseable text of two lines has been analysed
C4_Witness ==
    /\ pc = "done"
    /\ code # NoText
    /\ code.ast = ParseError
    /\ Len(code.lines) = 2
    /\ result.features.nesting_depth = 1

\* C5: when the rules firing for record A include those firing for record B, the
\* ai_percentage of A is at least that of B.
C5_Monotone ==
    pc = "done" /\ featuresB # NoFeatures /\ Fired(featuresB) \subseteq Fired(features) =>
        result.ai_percentage >= resultB.ai_percentage

\* A fires strictly more rules than B, B fires some
C5_Witness ==
    /\ pc = "done"
    /\ featuresB # NoFeatures
    /\ Fired(featuresB) # {}
    /\ Fired(featuresB) \subseteq Fired(features)
    /\ Fired(featuresB) # Fired(features)
    /\ result.ai_percentage > resultB.ai_percentage

\* C6: the max_score accumulated in a scoring pass equals the sum of the weights
\* of Config.SCORING_WEIGHTS, whichever rules fired.
C6_MaxScoreIsConfiguredSum ==
    pc = "done" /\ result # NoResult => max_score = ConfiguredMaxScore

\* a pass in which some rules fired and some did not
C6_Witness ==
    /\ pc = "done"
    /\ result # NoResult
    /\ ai_score > 0
    /\ ai_score < max_score
    /\ Cardinality(Fired(features)) = 5

\* C7: is_ai_generated is true exactly when ai_percentage reaches the configured
\* threshold Config.AI_DETECTION_THRESHOLD, for every configured value.
C7_VerdictFollowsConfiguredThreshold ==
    pc = "done" /\ result # NoResult =>
        (result.is_ai_generated <=> result.ai_percentage >= 100 * AI_DETECTION_THRESHOLD)

\* C8: a request with 'code' and no 'filename', or a filename without a dot, is
\* answered with the analysis result, which is appended to the store.
C8_FilenameOptional ==
    \A t \in Threads :
        LET data == thread[t].request IN
        /\ thread[t].pc = "responded"
        /\ ~data.empty
        /\ data.has_code
        /\ ~data.has_filename \/ ~HasDot(data.filename)
        => /\ thread[t].response.status = 200
           /\ \E i \in DOMAIN analysis_results :
                analysis_results[i] = thread[t].response.body

\* what the claims call an allowed name: it has a dot and its lower-cased last
\* extension is in the given allow-list
AllowedName(filename, extensions) ==
    /\ Len(filename) > 1
    /\ Lower(filename[Len(filename)]) \in extensions

AllowListOf(app) ==
    IF app = "app_simple" THEN ALLOWED_EXTENSIONS ELSE LEGACY_ALLOWED_EXTENSIONS

\* the positions of the upload's files that are allowed, in upload order
AllowedPositions(u) ==
    SelectSeq([i \in 1..Len(u.files) |-> i],
              LAMBDA i : AllowedName(u.files[i].filename, AllowListOf(u.app)))

IsErrorEntry(entry) == "error" \in DOMAIN entry

\* C9: in both upload handlers an undecodable file yields an error entry for that
\* file only, every other allowed file gets its analysis result, and the batch is
\* never aborted.
C9_UndecodableFileIsolated ==
    /\ upload.status # "aborted"
    /\ upload.status = "rendered" =>
        LET allowed == AllowedPositions(upload) IN
        /\ Len(upload.results) = Len(allowed)
        /\ \A k \in 1..Len(allowed) :
            /\ upload.results[k].filename = upload.files[allowed[k]].filename
            /\ IsErrorEntry(upload.results[k]) <=> ~upload.files[allowed[k]].utf8

\* C10: app_simple.py's analyze_files decodes and analyses a file only if its
\* name has a dot and its lower-cased last extension is in ALLOWED_EXTENSIONS,
\* and the result list holds exactly one entry per allowed file, in upload order.
C10_OnlyAllowedFilesDecoded ==
    upload.status \in {"running", "rendered"} /\ upload.app = "app_simple" =>
        LET allowed == AllowedPositions(upload)
            done == SelectSeq(allowed, LAMBDA i : i < upload.pos)
        IN  /\ upload.decoded = done
            /\ \A k \in 1..Len(upload.analysed) :
                    \E m \in 1..Len(upload.decoded) : upload.decoded[m] = upload.analysed[k]
            /\ Len(upload.results) = Len(done)
            /\ \A k \in 1..Len(done) :
                    upload.results[k].filename = upload.files[done[k]].filename

\* an upload of an allowed file with an upper-case extension and a refused file
\* has been rendered
C10_Witness ==
    /\ upload.status = "rendered"
    /\ upload.app = "app_simple"
    /\ Len(upload.files) = 2
    /\ upload.files[1].filename = <<"b", "PY">>
    /\ upload.files[2].filename = <<"run", "exe">>
    /\ Len(upload.results) = 1

\* the positions a sequence of positions holds
Positions(seq) == {seq[i] : i \in 1..Len(seq)}

\* C11: while the grammar checker is failing, the analysis of every file whose
\* bytes decode still completes and has its entry in the results; the checker's
\* failure ends no request.
C11_GrammarFailureRecovered ==
    (tool = "failing" /\ upload.status \in {"running", "aborted", "rendered"}) =>
        /\ \A p \in Positions(upload.decoded) :
                upload.files[p].utf8 => p \in Positions(upload.analysed)
        /\ upload.status = "aborted" => ~upload.files[upload.pos].utf8

\* C12: the summary of a feature record for which no scoring rule fires is the
\* fixed message "No significant patterns detected".
C12_NoRuleNoPattern ==
    (pc = "done" /\ features # NoFeatures /\ Fired(features) = {}) =>
        result.analysis_summary = <<"No significant patterns detected">>

\* the three tier clauses and the fixed message: what is no indicator clause
TierClauses ==
    {"Strong indicators of AI generation", "Moderate indicators of AI generation",
     "Appears to be human-written", "No significant patterns detected"}

\* the rule of scoring_rules each indicator clause of the summary speaks for
RuleOfClause ==
    [c \in {"Uses generic variable naming patterns",
            "Contains grammar issues in comments",
            "Heavy use of common AI libraries",
            "Inconsistent indentation patterns",
            "High function density"} |->
        CASE c = "Uses generic variable naming patterns" -> 1
          [] c = "Contains grammar issues in comments" -> 2
          [] c = "Heavy use of common AI libraries" -> 3
          [] c = "Inconsistent indentation patterns" -> 5
          [] c = "High function density" -> 7]

\* the rules the indicator clauses of a summary speak for
RulesInSummary(summary) ==
    {RuleOfClause[summary[i]] :
        i \in {j \in 1..Len(summary) : summary[j] \notin TierClauses}}

\* C13: the indicator clauses of the summary are those of the rules that fired
\* in the scoring pass: one clause for each of the twelve rules whose predicate
\* held, none for a rule whose predicate did not hold.
C13_SummaryClausesAreFiredRules ==
    (pc = "done" /\ features # NoFeatures) =>
        RulesInSummary(result.analysis_summary) = Fired(features)

\* the tier clauses a summary carries, in order
TierClausesOf(summary) ==
    SelectSeq(summary, LAMBDA c : c \in TierClauses \ {"No significant patterns detected"})

\* C14: the summary carries exactly one tier clause, chosen by the returned
\* percentage: strong from 50, moderate from 30 to below 50, human-written below
\* 30; it says human-written exactly when is_ai_generated is false.
C14_OneTierClause ==
    (pc = "done" /\ features # NoFeatures) =>
        /\ TierClausesOf(result.analysis_summary) =
                IF result.ai_percentage >= 5000
                    THEN <<"Strong indicators of AI generation">>
                ELSE IF result.ai_percentage >= 3000
                    THEN <<"Moderate indicators of AI generation">>
                ELSE <<"Appears to be human-written">>
        /\ (TierClausesOf(result.analysis_summary) = <<"Appears to be human-written">>)
                <=> ~result.is_ai_generated

\* a record scored at exactly 50 percent (49 of 98) carries the strong clause
C14_Witness ==
    /\ pc = "done"
    /\ features # NoFeatures
    /\ result.ai_percentage = 5000
    /\ TierClausesOf(result.analysis_summary) = <<"Strong indicators of AI generation">>

\* the sum of the k-th per-file value over the files analysed without error
ExpectedTotal(k) ==
    SumSeq([i \in 1..Len(files_to_analyze) |->
                LET outcome == AnalyzeLines(files_to_analyze[i])
                IN  IF Raised(outcome) THEN 0 ELSE LocalValue(outcome, k)])

\* C15: when process_folder returns, each of the five aggregate counters equals
\* the sum of the per-file values over the files analysed without error,
\* whatever the interleaving of the worker threads was.
C15_NoLostUpdate ==
    folder_pc = "returned" =>
        \A k \in 1..Len(TotalNames) : TotalValue(k) = ExpectedTotal(k)

\* the store after a step is the store before it, or that with one record more
StoreAppendOnly ==
    \/ analysis_results' = analysis_results
    \/ /\ Len(analysis_results') = Len(analysis_results) + 1
       /\ SubSeq(analysis_results', 1, Len(analysis_results)) = analysis_results

\* every answered request left its record in the store if it succeeded, and
\* nothing if it failed
AnsweredRequestsStored ==
    \A t \in Threads :
        thread[t].pc = "responded" =>
            IF thread[t].response.status = 200
            THEN \E i \in DOMAIN analysis_results :
                    analysis_results[i] = thread[t].response.body
            ELSE thread[t].analysis_result = NoRecord

\* C16: under every interleaving of /api/analyze requests the store only grows
\* at its end, holds the record of each successful request and none of a failed
\* one, and the id of every record is its 1-based position, so ids are distinct.
C16_StoreAppendOnlyWithPositionIds ==
    /\ [][StoreAppendOnly]_vars
    /\ [](AnsweredRequestsStored)
    /\ [](\A i \in DOMAIN analysis_results : analysis_results[i].id = i)

\* the analyses of an upload that completed: its entries that are no error entry
CompletedUploadAnalyses(u) == Len(SelectSeq(u.results, LAMBDA e : ~IsErrorEntry(e)))

\* C17: every analysis that completed, the ones of the /analyze_files upload
\* included, is in the history store: /api/stats and /api/history report as many
\* analyses as have completed.
C17_CompletedAnalysesAreStored ==
    (upload.status \in {"running", "rendered"} /\ upload.app = "app_simple") =>
        /\ api_stats.total_analyses = CompletedUploadAnalyses(upload)
        /\ api_history(1, 10).total = CompletedUploadAnalyses(upload)

\* the weight column of the rule table
RuleWeights(f) == [i \in 1..Len(scoring_rules(f)) |-> scoring_rules(f)[i].weight]

\* C18: the returned ai_percentage is 100 * (sum of the weights of the rules
\* whose predicate holds) / (sum of the weights of all rules), rounded to two
\* decimals; ai_score is the sum of the fired weights, max_score the sum of all;
\* a max_score of 0 gives 0.
C18_PercentageIsWeightedShare ==
    /\ Percentage(0, 0) = Ratio(0, 1)
    /\ (pc = "done" /\ features # NoFeatures) =>
            LET weights == RuleWeights(features)
                fired == SumOver(weights, Fired(features))
                all == SumOver(weights, DOMAIN weights)
            IN  /\ ai_score = fired
                /\ max_score = all
                /\ result.ai_percentage = Round2(Ratio(100 * fired, all))

\* the naming and the grammar rule fire, nothing else: 35 of 98 is 35.71
C18_Witness ==
    /\ pc = "done"
    /\ features # NoFeatures
    /\ Fired(features) = {1, 2}
    /\ result.ai_percentage = 3571

\* C19: in every result the verdict agrees with the returned, rounded
\* percentage: is_ai_generated is true exactly when the returned ai_percentage
\* is at least 30, for every set of rules that can fire.
C19_VerdictAgreesWithReturnedPercentage ==
    (pc = "done" /\ features # NoFeatures) =>
        (result.is_ai_generated <=> result.ai_percentage >= 3000)

\* the closest score below the threshold: 29 of 98 is returned as 29.59, human
C19_Witness ==
    /\ pc = "done"
    /\ features # NoFeatures
    /\ ai_score = 29
    /\ result.ai_percentage = 2959
    /\ ~result.is_ai_generated

\* the rules by the band the weighting scheme puts them in: naming, grammar,
\* library, pattern; formatting and complexity; line length and presence flags
HighRules == {1, 2, 3, 4}

MediumRules == {5, 6, 7, 8}

LowRules == {9, 10, 11, 12}

HighKeys ==
    {"ai_variable_count", "comment_grammar_issues", "common_library_count",
     "ai_pattern_matches"}

MediumKeys ==
    {"indent_consistency", "operator_spacing", "function_count", "cyclomatic_complexity"}

LowKeys == {"avg_line_length", "max_line_length", "has_docstrings", "has_main_guard"}

\* the weights of the rule list used for record f and of the configured table
\* are positive integers, the high ones from `low_end_of_high` to 20, the medium
\* ones from 6 to 8, the low ones from 2 to 3
WeightsInBands(f, low_end_of_high) ==
    LET weights == RuleWeights(f)
    IN  /\ \A i \in DOMAIN weights : weights[i] \in Nat \ {0}
        /\ \A k \in DOMAIN SCORING_WEIGHTS : SCORING_WEIGHTS[k] \in Nat \ {0}
        /\ \A i \in HighRules : weights[i] \in low_end_of_high..20
        /\ \A i \in MediumRules : weights[i] \in 6..8
        /\ \A i \in LowRules : weights[i] \in 2..3
        /\ \A k \in HighKeys : SCORING_WEIGHTS[k] \in low_end_of_high..20
        /\ \A k \in MediumKeys : SCORING_WEIGHTS[k] \in 6..8
        /\ \A k \in LowKeys : SCORING_WEIGHTS[k] \in 2..3

IndentationRule == 5

\* C21: the indentation rule fires exactly when the ratio computed by
\* _check_indentation_consistency for the text (consistent_indentation, a value
\* in [0,1]) is below 0.8.
C21_IndentationRuleUsesRatio ==
    (pc = "done" /\ code # NoText) =>
        /\ RatioAtLeast(features.consistent_indentation, 0)
        /\ ~RatioGreater(features.consistent_indentation, 1, 1)
        /\ (IndentationRule \in Fired(features)
                <=> RatioLess(features.consistent_indentation, 8, 10))

\* the indentations of the non-blank lines of a text
Indentations(text) ==
    {NonEmptyLines(text)[i].indent : i \in 1..Len(NonEmptyLines(text))}

\* every indentation is a multiple of one unit: of the smallest indentation
\* that is not zero
MultiplesOfOneUnit(indents) ==
    \A unit \in indents \ {0} :
        (\A other \in indents \ {0} : unit <= other) =>
            \A x \in indents : x % unit = 0

\* C22: _check_indentation_consistency returns 1.0 for every text whose
\* non-blank lines are all indented by multiples of one unit (lines at 0, 4 and
\* 8 spaces, say), and 1.0 for a text without a non-blank line.
C22_MultiplesAreFullyConsistent ==
    (pc = "done" /\ code # NoText /\ MultiplesOfOneUnit(Indentations(code))) =>
        features.consistent_indentation.num = features.consistent_indentation.den

\* C23: ai_variable_count is the number of matches in the text of the
\* configured generic-name patterns (Config.AI_VARIABLE_PATTERNS): every
\* occurrence of temp, data, result, value, item or count, with or without
\* digits after it, adds one.
C23_NamingUsesConfiguredPatterns ==
    (pc = "done" /\ code # NoText) =>
        features.ai_variable_count =
            SumSeq([k \in 1..Len(AI_VARIABLE_PATTERNS) |->
                        FindAll(AI_VARIABLE_PATTERNS[k], AllWords(code.lines))])

\* every node of a tree, the root first, each node once
RECURSIVE WalkFrom(_, _), Walk(_)
Walk(tree) == <<tree>> \o WalkFrom(tree.children, 1)

WalkFrom(children, i) ==
    IF i > Len(children) THEN <<>>
    ELSE Walk(children[i]) \o WalkFrom(children, i + 1)

\* the decision-point constructs: if, while, for, async for, exception handler,
\* with-block
DecisionPoints == {"If", "While", "For", "AsyncFor", "ExceptHandler", "With"}

\* C24: for a text that parses, cyclomatic_complexity is 1 plus the number of
\* decision-point nodes of the whole tree, each counted once; branch_count is
\* cyclomatic_complexity - 1 whether the text parses or not.
C24_ComplexityCountsDecisionPoints ==
    (pc = "done" /\ code # NoText) =>
        /\ features.branch_count = features.cyclomatic_complexity - 1
        /\ code.ast # ParseError =>
                features.cyclomatic_complexity =
                    1 + Len(SelectSeq(Walk(code.ast), LAMBDA n : n.kind \in DecisionPoints))

\* the tree with six decision points, two of them exception handlers
C24_Witness ==
    /\ pc = "done"
    /\ code # NoText
    /\ code.ast = BranchyModule
    /\ features.cyclomatic_complexity = 7
    /\ features.branch_count = 6

\* the most constructs of the set `kinds` on a path from the root of the tree
\* down to a node
RECURSIVE DeepestPath(_, _)
DeepestPath(tree, kinds) ==
    (IF tree.kind \in kinds THEN 1 ELSE 0)
        + MaxSeq([i \in 1..Len(tree.children) |-> DeepestPath(tree.children[i], kinds)])

\* C25: for a text that parses, nesting_depth is the maximum over the
\* root-to-node paths of the tree of the number of decision-point constructs on
\* the path, the decision points being those counted for complexity (exception
\* handlers included); a depth found in one subtree survives shallower siblings.
C25_NestingUsesDecisionPoints ==
    (pc = "done" /\ code # NoText /\ code.ast # ParseError) =>
        features.nesting_depth = DeepestPath(code.ast, DecisionPoints)

\* C26 as stated: for every input text, parseable or not, the metrics of
\* _analyze_complexity satisfy nesting_depth <= branch_count.
C26_NestingWithinBranches ==
    (pc = "done" /\ code # NoText) => features.nesting_depth <= features.branch_count

\* C26 as amended: for every text that parses nesting_depth <= branch_count;
\* for a text that does not parse the metrics are the fallback values,
\* nesting_depth 1 and branch_count 0.
C26_NestingWithinBranchesWhenParsed ==
    (pc = "done" /\ code # NoText) =>
        IF code.ast # ParseError
        THEN features.nesting_depth <= features.branch_count
        ELSE features.nesting_depth = 1 /\ features.branch_count = 0

\* three constructs deep with four decision points in the tree
C26_Witness ==
    /\ pc = "done"
    /\ code # NoText
    /\ code.ast = NestedModule
    /\ features.nesting_depth = 3
    /\ features.branch_count = 4

\* the step is a /api/history request being answered
HistoryAnswered == history.status = "idle" /\ history'.status = "responded"

\* ceiling(n / d) for d >= 1: the least k with k * d >= n
Ceiling(n, d) == CHOOSE k \in 0..n : k * d >= n /\ \A j \in 0..(k - 1) : j * d < n

\* the results of pages 1..last of size per_page, one after the other
RECURSIVE PagesConcatenated(_, _)
PagesConcatenated(last, per_page) ==
    IF last = 0 THEN <<>>
    ELSE PagesConcatenated(last - 1, per_page) \o api_history(last, per_page).results

\* C27: for every store content and every per_page >= 1 the answer of
\* /api/history has total = number of stored records and pages =
\* ceiling(total / per_page), its page holds at most per_page records, a page in
\* 1..pages holds the records at its positions, and the results of pages
\* 1..pages one after the other are the stored records in insertion order.
C27_PagesPartitionTheStore ==
    [][(HistoryAnswered /\ history'.per_page >= 1) =>
            LET n == Len(analysis_results)
                per_page == history'.per_page
                page == history'.page
                body == history'.response.body
            IN  /\ history'.response.status = 200
                /\ body.total = n
                /\ body.pages = Ceiling(n, per_page)
                /\ Len(body.results) <= per_page
                /\ page \in 1..body.pages =>
                        body.results =
                            [i \in 1..(Min(page * per_page, n) - (page - 1) * per_page) |->
                                analysis_results[(page - 1) * per_page + i]]
                /\ PagesConcatenated(body.pages, per_page) = analysis_results]_vars

\* three records in pages of two: the second page holds the third record alone
C27_Witness ==
    /\ history.status = "responded"
    /\ Len(analysis_results) = 3
    /\ history.per_page = 2
    /\ history.page = 2
    /\ history.response.body.pages = 2
    /\ history.response.body.results = <<analysis_results[3]>>

\* C28: with a page size of at least one, every page number outside 1..pages,
\* zero and the negative ones included, is answered with an empty result list.
C28_PagesOutsideRangeAreEmpty ==
    [][(/\ HistoryAnswered
        /\ history'.per_page >= 1
        /\ history'.page \notin 1..history'.response.body.pages) =>
            history'.response.body.results = <<>>]_vars

\* C29: when process_folder returns, completed_files equals total_files, under
\* every interleaving of the workers and also when the analysis of a file fails.
C29_AllFilesCountedAtReturn ==
    folder_pc = "returned" => completed_files = total_files

\* the lines of a file that are not blank after strip()
NonBlankLines(file) == SelectSeq(file.lines, LAMBDA l : l.kind # "blank")

\* C30: in analyze_code every non-blank line is classified exactly once, so
\* for a file whose line loop has finished ai_lines + human_lines never exceeds
\* the number of its non-blank lines.
C30_EachLineClassifiedOnce ==
    \A i \in 1..Len(worker) :
        (worker[i].pc # "start" /\ worker[i].raised = "") =>
            worker[i].locals.ai_lines + worker[i].locals.human_lines
                <= Len(NonBlankLines(files_to_analyze[i]))
====
